---- MODULE Spec2Model ----
(***************************************************************************)
(* Model of the litai-spex deployment pipeline:                            *)
(*   utils/fileScanner.js  (matchesPattern, scanDirectory,                 *)
(*                          getRemoteDirectories)                          *)
(*   utils/config.js       (mergeWithCliOptions, validateConfig)           *)
(*   utils/sshDeployer.js  (class SSHDeployer)                             *)
(*   commands/deploy.js    (deployCommand)                                 *)
(*                                                                         *)
(* A path is a sequence of path segments (names); the string "a/b/c.txt"   *)
(* is <<"a", "b", "c.txt">>.  path.join, path.relative, split('/') and the *)
(* template `${a}/${b}` are concatenation and sub-sequence on segments.    *)
(* A name is looked at character by character only by matchesPattern,      *)
(* through Chars.                                                          *)
(***************************************************************************)
EXTENDS Integers, Sequences, FiniteSets, TLC

(***************************************************************************)
(* Bounds of the model.                                                    *)
(***************************************************************************)
\* longest list of file entries given to getRemoteDirectories in SpecPlan
MaxPlanFiles == 3
\* longest list of file entries given to uploadFiles by the free caller
MaxFiles == 5
\* number of SSHDeployer method calls the free caller makes
MaxCalls == 4
\* longest file name and longest pattern given to matchesPattern alone
MaxNameLen == 3

(***************************************************************************)
(* Sequences helpers.                                                      *)
(***************************************************************************)
Range(s) == {s[i] : i \in 1..Len(s)}

\* s.slice(0, n)
Prefix(s, n) == SubSeq(s, 1, n)

\* all the non-empty prefixes of a path: a, a/b, a/b/c
Prefixes(p) == {Prefix(p, n) : n \in 1..Len(p)}

IsPrefixOf(p, q) == Len(p) <= Len(q) /\ Prefix(q, Len(p)) = p

\* D1 is a proper ancestor directory of D2
IsAncestor(d1, d2) == Len(d1) < Len(d2) /\ IsPrefixOf(d1, d2)

\* array.includes(x)
Includes(s, x) == \E i \in 1..Len(s) : s[i] = x

\* index of the first occurrence of x in s, 0 when absent
IndexOf(s, x) == IF Includes(s, x) THEN CHOOSE i \in 1..Len(s) : s[i] = x /\ \A j \in 1..(i - 1) : s[j] # x ELSE 0

(***************************************************************************)
(* path.dirname(file.remote) on a relative forward-slash path: the path    *)
(* without its last segment; '.' (here <<>>) for a file at the root.       *)
(***************************************************************************)
dirname(p) == IF Len(p) <= 1 THEN <<>> ELSE Prefix(p, Len(p) - 1)

\* the last segment of a path (the item name)
basename(p) == p[Len(p)]

(***************************************************************************)
(* getRemoteDirectories(files)                                             *)
(***************************************************************************)
\* dirs.add(current) for an array instead of a Set: push
SetAddAgain(dirs, d) == Append(dirs, d)

\* dirs.add(current) for a Set that iterates in insertion order
SetAdd(dirs, d) == IF Includes(dirs, d) THEN dirs ELSE Append(dirs, d)

\* AddParents with the loop over the parent directories left out: only the
\* file's own directory is added
AddParentsOnlySelf(dirs, dir, n) == SetAdd(dirs, dir)

\* the inner loop over parts: every prefix of dir is added, shortest first
RECURSIVE AddParents(_, _, _)
AddParents(dirs, dir, n) == IF n > Len(dir) THEN dirs ELSE AddParents(SetAdd(dirs, Prefix(dir, n)), dir, n + 1)

\* the outer loop over files; dir && dir !== '.' is dirname(..) # <<>>
RECURSIVE CollectDirs(_, _, _)
CollectDirs(dirs, files, i) == IF i > Len(files) THEN dirs ELSE CollectDirs(IF dirname(files[i].remote) # <<>> THEN AddParents(dirs, dirname(files[i].remote), 1) ELSE dirs, files, i + 1)

MaxDepthOf(dirs) == IF dirs = <<>> THEN 0 ELSE CHOOSE m \in {Len(dirs[i]) : i \in 1..Len(dirs)} : \A i \in 1..Len(dirs) : Len(dirs[i]) <= m

\* Array.prototype.sort with the comparator depthA - depthB: a stable sort
\* by the number of segments
RECURSIVE SortByDepth(_, _, _)
SortByDepth(dirs, d, max) == IF d > max THEN <<>> ELSE SelectSeq(dirs, LAMBDA x : Len(x) = d) \o SortByDepth(dirs, d + 1, max)

getRemoteDirectories(files) == LET dirs == CollectDirs(<<>>, files, 1) IN SortByDepth(dirs, 1, MaxDepthOf(dirs))

(***************************************************************************)
(* matchesPattern(filename, patterns)                                      *)
(***************************************************************************)
\* the characters of the names and patterns of the model
Chars(s) ==
    CASE s = "*.log" -> <<"*", ".", "l", "o", "g">>
      [] s = "*.tmp" -> <<"*", ".", "t", "m", "p">>
      [] s = "app*" -> <<"a", "p", "p", "*">>
      [] s = "catalog" -> <<"c", "a", "t", "a", "l", "o", "g">>
      [] s = "app.log" -> <<"a", "p", "p", ".", "l", "o", "g">>
      [] s = "app.log.bak" -> <<"a", "p", "p", ".", "l", "o", "g", ".", "b", "a", "k">>
      [] s = "deploy.sh" -> <<"d", "e", "p", "l", "o", "y", ".", "s", "h">>
      [] s = "index.js" -> <<"i", "n", "d", "e", "x", ".", "j", "s">>
      [] s = "x.js" -> <<"x", ".", "j", "s">>
      [] s = "c.txt" -> <<"c", ".", "t", "x", "t">>
      [] s = "d.txt" -> <<"d", ".", "t", "x", "t">>
      [] s = "e.txt" -> <<"e", ".", "t", "x", "t">>
      [] s = "node_modules" -> <<"n", "o", "d", "e", "_", "m", "o", "d", "u", "l", "e", "s">>
      [] s = "logs" -> <<"l", "o", "g", "s">>
      [] s = "*.js" -> <<"*", ".", "j", "s">>
      [] s = "src" -> <<"s", "r", "c">>
      [] s = "a" -> <<"a">>
      [] s = "b" -> <<"b">>
      [] s = "c" -> <<"c">>

\* new RegExp('^' + pattern.replace(/\*/g, '.*') + '$').test(name): '*' has
\* become '.*', '.' is the regular expression's any-character, every other
\* character of the model's alphabet stands for itself
RECURSIVE RegexTest(_, _)
\* RegexTest that stops at the end of the pattern: without the '$'
RegexTestNoEnd(p, s) ==
    IF p = <<>> THEN TRUE
    ELSE IF Head(p) = "*" THEN RegexTest(Tail(p), s) \/ (s # <<>> /\ RegexTest(p, Tail(s)))
    ELSE IF Head(p) = "." THEN s # <<>> /\ RegexTest(Tail(p), Tail(s))
    ELSE s # <<>> /\ Head(s) = Head(p) /\ RegexTest(Tail(p), Tail(s))

RegexTest(p, s) ==
    IF p = <<>> THEN s = <<>>
    ELSE IF Head(p) = "*" THEN RegexTest(Tail(p), s) \/ (s # <<>> /\ RegexTest(p, Tail(s)))
    ELSE IF Head(p) = "." THEN s # <<>> /\ RegexTest(Tail(p), Tail(s))
    ELSE s # <<>> /\ Head(s) = Head(p) /\ RegexTest(Tail(p), Tail(s))

\* the callback of patterns.some, on the characters of the pattern and of the
\* name: pattern.includes('*') ? regex.test(filename) : filename === pattern
PatternTest(p, s) == IF Includes(p, "*") THEN RegexTest(p, s) ELSE s = p

\* matchesPattern on the characters of the name and of the patterns
matchesPatternChars(name, patterns) == \E k \in 1..Len(patterns) : PatternTest(patterns[k], name)

matchesPattern(filename, patterns) == matchesPatternChars(Chars(filename), [k \in 1..Len(patterns) |-> Chars(patterns[k])])

(***************************************************************************)
(* scanDirectory(dir, excludeConfig, baseDir)                              *)
(* A tree is the listing of a source directory: items, each with its path  *)
(* relative to the source directory and whether it is a directory, in the  *)
(* order fs.readdirSync lists them; and the directories that cannot be     *)
(* read.  The result is [err, files]: err when readdirSync threw.          *)
(***************************************************************************)
Dir(p) == [path |-> p, isDir |-> TRUE]
File(p) == [path |-> p, isDir |-> FALSE]

\* fs.readdirSync(dir): the items directly in dir
Children(tree, dir) == SelectSeq(tree.items, LAMBDA it : Len(it.path) = Len(dir) + 1 /\ IsPrefixOf(dir, it.path))

\* the source directory, process.cwd()
Cwd == <<"cwd">>

RECURSIVE scanDirectory(_, _, _)
RECURSIVE ScanItems(_, _, _, _)
\* ScanItems where excludeDirectories, excludeFiles and excludePatterns are
\* applied to directories and files alike
ScanItemsExcludeAnyName(tree, items, excludeConfig, i) ==
    IF i > Len(items) THEN [err |-> FALSE, files |-> <<>>]
    ELSE LET item == items[i]
             name == basename(item.path)
             rest == ScanItems(tree, items, excludeConfig, i + 1)
             here == IF Includes(excludeConfig.excludeDirectories, name) THEN [err |-> FALSE, files |-> <<>>]
                     ELSE IF Includes(excludeConfig.excludeFiles, name) THEN [err |-> FALSE, files |-> <<>>]
                     ELSE IF matchesPattern(name, excludeConfig.excludePatterns) THEN [err |-> FALSE, files |-> <<>>]
                     ELSE IF item.isDir THEN scanDirectory(tree, item.path, excludeConfig)
                     ELSE [err |-> FALSE, files |-> <<[local |-> Cwd \o item.path, remote |-> item.path]>>]
         IN  IF here.err THEN [err |-> TRUE, files |-> <<>>]
             ELSE IF rest.err THEN [err |-> TRUE, files |-> <<>>]
             ELSE [err |-> FALSE, files |-> here.files \o rest.files]

\* ScanItems without the test of excludeDirectories: every directory is scanned
ScanItemsEveryDirectory(tree, items, excludeConfig, i) ==
    IF i > Len(items) THEN [err |-> FALSE, files |-> <<>>]
    ELSE LET item == items[i]
             name == basename(item.path)
             rest == ScanItems(tree, items, excludeConfig, i + 1)
             here == IF item.isDir
                     THEN scanDirectory(tree, item.path, excludeConfig)
                     ELSE IF Includes(excludeConfig.excludeFiles, name) THEN [err |-> FALSE, files |-> <<>>]
                          ELSE IF matchesPattern(name, excludeConfig.excludePatterns) THEN [err |-> FALSE, files |-> <<>>]
                          ELSE [err |-> FALSE, files |-> <<[local |-> Cwd \o item.path, remote |-> item.path]>>]
         IN  IF here.err THEN [err |-> TRUE, files |-> <<>>]
             ELSE IF rest.err THEN [err |-> TRUE, files |-> <<>>]
             ELSE [err |-> FALSE, files |-> here.files \o rest.files]

ScanItems(tree, items, excludeConfig, i) ==
    IF i > Len(items) THEN [err |-> FALSE, files |-> <<>>]
    ELSE LET item == items[i]
             name == basename(item.path)
             rest == ScanItems(tree, items, excludeConfig, i + 1)
             here == IF item.isDir
                     THEN IF Includes(excludeConfig.excludeDirectories, name) THEN [err |-> FALSE, files |-> <<>>]
                          ELSE scanDirectory(tree, item.path, excludeConfig)
                     ELSE IF Includes(excludeConfig.excludeFiles, name) THEN [err |-> FALSE, files |-> <<>>]
                          ELSE IF matchesPattern(name, excludeConfig.excludePatterns) THEN [err |-> FALSE, files |-> <<>>]
                          ELSE [err |-> FALSE, files |-> <<[local |-> Cwd \o item.path, remote |-> item.path]>>]
         IN  IF here.err THEN [err |-> TRUE, files |-> <<>>]
             ELSE IF rest.err THEN [err |-> TRUE, files |-> <<>>]
             ELSE [err |-> FALSE, files |-> here.files \o rest.files]

\* scanDirectory where a directory that cannot be read is taken as empty
scanDirectorySkipUnreadable(tree, dir, excludeConfig) ==
    IF dir \in tree.unreadable THEN [err |-> FALSE, files |-> <<>>]
    ELSE ScanItems(tree, Children(tree, dir), excludeConfig, 1)

scanDirectory(tree, dir, excludeConfig) ==
    IF dir \in tree.unreadable THEN [err |-> TRUE, files |-> <<>>]
    ELSE ScanItems(tree, Children(tree, dir), excludeConfig, 1)

(***************************************************************************)
(* utils/config.js                                                         *)
(***************************************************************************)
\* a || b on strings: the empty string (and undefined, modelled as "") is falsy
Or(a, b) == IF a # "" THEN a ELSE b

DEFAULT_CONFIG ==
    [connection |-> [host |-> "", username |-> "", password |-> "", privateKeyPath |-> "", targetDirectory |-> "/var/www/app"],
     deploy |-> [excludeDirectories |-> <<"node_modules", "logs", ".git", ".idea", ".vscode">>,
                 excludeFiles |-> <<"package-lock.json", ".env.local", ".DS_Store">>,
                 excludePatterns |-> <<"*.log", "*.tmp">>],
     scripts |-> [afterDeploy |-> "deploy.sh"],
     project |-> [repositoryUrl |-> "", targetDirectory |-> "."]]

\* mergeWithCliOptions with the connection section replaced as a whole by
\* the command line options
mergeWithCliOptionsWholeObject(cfg, opts) ==
    [cfg EXCEPT !.connection =
        [host |-> opts.ip, username |-> opts.user, password |-> opts.password, privateKeyPath |-> opts.key, targetDirectory |-> opts.directory]]

mergeWithCliOptions(cfg, opts) ==
    [cfg EXCEPT !.connection =
        [host |-> Or(opts.ip, cfg.connection.host),
         username |-> Or(opts.user, cfg.connection.username),
         password |-> Or(opts.password, cfg.connection.password),
         privateKeyPath |-> Or(opts.key, cfg.connection.privateKeyPath),
         targetDirectory |-> Or(opts.directory, cfg.connection.targetDirectory)]]

\* validateConfig(config).missing, as the set of the missing fields
validateConfigMissing(cfg) ==
    (IF cfg.connection.host = "" THEN {"host"} ELSE {})
    \cup (IF cfg.connection.username = "" THEN {"username"} ELSE {})
    \cup (IF cfg.connection.password = "" /\ cfg.connection.privateKeyPath = "" THEN {"password or privateKeyPath"} ELSE {})
    \cup (IF cfg.connection.targetDirectory = "" THEN {"targetDirectory"} ELSE {})

\* validateConfig(config).isValid
validateConfigIsValid(cfg) == validateConfigMissing(cfg) = {}

(***************************************************************************)
(* The inputs of the model.                                                *)
(***************************************************************************)
\* options.run: undefined without -r, true for a bare -r, a string for -r name
RunUndefined == "<undefined>"
RunTrue == "<true>"
RunOptions == {RunUndefined, RunTrue, "run.sh"}

NoCli == [ip |-> "", user |-> "", password |-> "", key |-> "", directory |-> ""]

\* the connection section of the configuration file (merged with the defaults
\* by loadConfig) and the command line options of a run
ConfigCases ==
    {[file |-> [host |-> "h1", username |-> "u1", password |-> "pw", privateKeyPath |-> "", targetDirectory |-> "/var/www/app"], cli |-> NoCli],
     [file |-> DEFAULT_CONFIG.connection, cli |-> [ip |-> "h2", user |-> "u2", password |-> "", key |-> "id_rsa", directory |-> "/srv"]],
     [file |-> [host |-> "h1", username |-> "u1", password |-> "pw", privateKeyPath |-> "id_rsa", targetDirectory |-> "/var/www/app"], cli |-> NoCli],
     [file |-> [host |-> "h1", username |-> "u1", password |-> "", privateKeyPath |-> "", targetDirectory |-> "/var/www/app"], cli |-> NoCli],
     [file |-> [host |-> "", username |-> "u1", password |-> "pw", privateKeyPath |-> "", targetDirectory |-> "/var/www/app"], cli |-> [NoCli EXCEPT !.user = "u2"]]}

\* the deploy section of the configuration of a run
DeployCases ==
    {DEFAULT_CONFIG.deploy,
     [excludeDirectories |-> <<"b">>, excludeFiles |-> <<"deploy.sh">>, excludePatterns |-> <<"app*">>]}

\* the source trees of the model
Trees ==
    {[items |-> <<Dir(<<"src">>), File(<<"src", "index.js">>), Dir(<<"node_modules">>), File(<<"node_modules", "x.js">>), File(<<"deploy.sh">>)>>, unreadable |-> {}],
     [items |-> <<Dir(<<"a">>), Dir(<<"a", "b">>), File(<<"a", "b", "c.txt">>), File(<<"a", "d.txt">>)>>, unreadable |-> {}],
     [items |-> <<File(<<"deploy.sh">>), File(<<"app.log">>), File(<<"catalog">>)>>, unreadable |-> {}],
     [items |-> <<Dir(<<"node_modules">>), File(<<"node_modules", "x.js">>), File(<<"app.log">>)>>, unreadable |-> {}],
     [items |-> <<Dir(<<"a">>), Dir(<<"a", "b">>), Dir(<<"a", "b", "c">>), File(<<"a", "b", "c", "e.txt">>), Dir(<<"b">>), File(<<"b", "d.txt">>), File(<<"deploy.sh">>)>>, unreadable |-> {}],
     [items |-> <<Dir(<<"a">>), Dir(<<"a", "b">>), File(<<"a", "b", "c.txt">>), File(<<"a", "d.txt">>)>>, unreadable |-> {<<"a", "b">>}]}

\* the source trees given to scanDirectory alone: those of the runs, a tree
\* whose excluded directory cannot be read, a tree where a file has the name
\* of an excluded directory and directories have the names of excluded files,
\* a tree with excluded directories below the top
ScanTrees ==
    Trees \cup
    {[items |-> <<Dir(<<"node_modules">>), File(<<"node_modules", "x.js">>), File(<<"index.js">>)>>, unreadable |-> {<<"node_modules">>}],
     [items |-> <<File(<<"logs">>), Dir(<<"deploy.sh">>), File(<<"deploy.sh", "x.js">>), Dir(<<"app.log">>), File(<<"app.log", "c.txt">>), File(<<"catalog">>)>>, unreadable |-> {}],
     [items |-> <<Dir(<<"a">>), Dir(<<"a", "node_modules">>), File(<<"a", "node_modules", "x.js">>), File(<<"a", "d.txt">>), Dir(<<"src">>), Dir(<<"src", "b">>), File(<<"src", "b", "c.txt">>), File(<<"src", "app.log">>)>>, unreadable |-> {<<"a", "node_modules">>}]}

\* the exclusion rules given to scanDirectory alone
ScanRules ==
    {[excludeDirectories |-> ds, excludeFiles |-> fs, excludePatterns |-> ps] :
        ds \in {<<>>, <<"node_modules">>, <<"node_modules", "logs">>, <<"b">>, <<"a", "app.log">>},
        fs \in {<<>>, <<"deploy.sh">>, <<"d.txt", "x.js">>},
        ps \in {<<>>, <<"*.log", "*.tmp">>, <<"app*">>, <<"*.js">>, <<"catalog">>}}

\* remote-relative paths of file entries given to getRemoteDirectories alone
PlanPaths ==
    {<<"x.js">>, <<"a", "x.js">>, <<"a", "d.txt">>, <<"b", "x.js">>, <<"a", "b", "c.txt">>, <<"b", "a", "x.js">>, <<"a", "b", "c", "e.txt">>}

Entry(p) == [local |-> Cwd \o p, remote |-> p]

\* the sequences of at most n elements of S
RECURSIVE SeqsUpTo(_, _)
SeqsUpTo(S, n) == IF n = 0 THEN {<<>>} ELSE LET shorter == SeqsUpTo(S, n - 1) IN shorter \cup {Append(q, x) : q \in shorter, x \in S}

\* the characters of the names and patterns given to matchesPattern alone
NameAlphabet == {"a", "."}
PatternAlphabet == NameAlphabet \cup {"*"}

\* the names and the pattern lists given to matchesPattern alone: every name
\* and every pattern of at most MaxNameLen characters, and the names and
\* patterns of the runs
MatchNames == SeqsUpTo(NameAlphabet, MaxNameLen) \cup {Chars(n) : n \in {"app.log", "app.log.bak", "catalog", "logs", "deploy.sh"}}
MatchPatterns == SeqsUpTo(PatternAlphabet, MaxNameLen) \cup {Chars(q) : q \in {"*.log", "*.tmp", "app*", "catalog"}}
MatchPatternLists == {<<>>} \cup {<<q>> : q \in MatchPatterns} \cup {<<Chars("*.tmp"), q>> : q \in MatchPatterns}

\* the file list the free caller uploads prefixes of
UploadList == <<Entry(<<"a", "d.txt">>), Entry(<<"a", "b", "c.txt">>), Entry(<<"deploy.sh">>), Entry(<<"b", "x.js">>), Entry(<<"index.js">>), Entry(<<"a", "x.js">>), Entry(<<"c.txt">>)>>

\* the remote base directories of the free caller
BaseDirs == {"/var/www/app", "/srv"}

\* the directory lists the free caller creates
DirLists == {<<>>, <<<<"a">>>>, <<<<"a">>, <<"b">>, <<"a", "b">>>>}

\* the connection configurations the free caller connects with
ConnCases == {mergeWithCliOptions([DEFAULT_CONFIG EXCEPT !.connection = c.file], c.cli).connection : c \in ConfigCases}

\* the configurations and the command line options given to
\* mergeWithCliOptions alone: each connection field set or not in the file,
\* each option given or not on the command line
MergeConfigs ==
    {[DEFAULT_CONFIG EXCEPT !.connection = [host |-> h, username |-> u, password |-> pw, privateKeyPath |-> k, targetDirectory |-> t], !.deploy = d] :
        h \in {"", "h1"}, u \in {"", "u1"}, pw \in {"", "pw"}, k \in {"", "id_rsa"}, t \in {"", "/var/www/app"}, d \in DeployCases}
MergeOptions ==
    {[ip |-> h, user |-> u, password |-> pw, key |-> k, directory |-> t] :
        h \in {"", "h2"}, u \in {"", "u2"}, pw \in {"", "pw2"}, k \in {"", "key2"}, t \in {"", "/srv"}}

(***************************************************************************)
(* State.                                                                  *)
(***************************************************************************)
VARIABLES
    connected,      \* SSHDeployer: this.connected
    sshConn,        \* SSHDeployer: this.ssh, the session of the provider:
                    \*   "none", "failed" (a connect attempt was rejected),
                    \*   "ready", "disposed"
    connects,       \* number of ssh.connect calls that succeeded
    disposes,       \* number of ssh.dispose calls
    call,           \* the SSHDeployer method in progress, its arguments and position
    ret,            \* how the last method ended: returned or threw, and what
    remoteDirs,     \* the directories of the remote host (full paths)
    inFlight,       \* the transfers started and not yet ended
    log,            \* what was done so far, in order
    progress,       \* the notifications given to onProgress, in order
    pc,             \* deployCommand: where it is
    options,        \* deployCommand: the command line options
    fileConfig,     \* what loadConfig returns
    config,         \* deployCommand: config
    tree,           \* the source directory
    files,          \* deployCommand: files
    directories,    \* deployCommand: directories
    lastPercent,    \* deployCommand: lastPercent
    exitCode,       \* the exit code of the process, -1 while it runs
    isTTY,          \* whether process.stdout is a terminal (has clearLine, cursorTo)
    calls,          \* number of calls the free caller made
    planIn,         \* getRemoteDirectories alone: its argument
    planOut,        \* getRemoteDirectories alone: [done, dirs]
    scanIn,         \* scanDirectory alone: [tree, rules]
    scanOut,        \* scanDirectory alone: [done, err, files]
    matchIn,        \* matchesPattern alone: [name, patterns], as characters
    matchOut,       \* matchesPattern alone: [done, result]
    mergeIn,        \* mergeWithCliOptions alone: [config, options]
    mergeOut        \* mergeWithCliOptions alone: [done, config]

objVars == <<connected, sshConn, connects, disposes>>
callVars == <<call, ret>>
envVars == <<remoteDirs, inFlight, log, progress>>
cmdVars == <<pc, options, fileConfig, config, tree, files, directories, lastPercent, exitCode, isTTY>>
planVars == <<planIn, planOut>>
scanVars == <<scanIn, scanOut>>
matchVars == <<matchIn, matchOut>>
mergeVars == <<mergeIn, mergeOut>>
fnVars == <<planVars, scanVars, matchVars, mergeVars>>
vars == <<objVars, callVars, envVars, cmdVars, calls, fnVars>>

\* scanDirectory and matchesPattern not called alone
NoScanIn == [tree |-> [items |-> <<>>, unreadable |-> {}], rules |-> DEFAULT_CONFIG.deploy]
NoScanOut == [done |-> FALSE, err |-> FALSE, files |-> <<>>]
NoMatchIn == [name |-> <<>>, patterns |-> <<>>]
NoMatchOut == [done |-> FALSE, result |-> FALSE]

\* mergeWithCliOptions not called alone
NoMergeIn == [config |-> DEFAULT_CONFIG, options |-> NoCli]
NoMergeOut == [done |-> FALSE, config |-> DEFAULT_CONFIG]

\* an entry of log
Ev(kind, path, res) == [kind |-> kind, path |-> path, res |-> res]

\* an error: its message, the path the message holds, the number of files it reports
Err(msg, path, completed) == [msg |-> msg, path |-> path, completed |-> completed]
NoErr == Err("", <<>>, -1)

\* the error of the provider (node-ssh) is passed on as it is: the model knows
\* the provider operation it comes from and nothing else about it
ProviderErr(operation) == Err(operation, <<>>, -1)

NoValue == [code |-> 0, found |-> FALSE]
NoRet == [status |-> "none", error |-> NoErr, value |-> NoValue]
Returned(v) == [status |-> "ok", error |-> NoErr, value |-> v]
Threw(e) == [status |-> "throw", error |-> e, value |-> NoValue]

NoConn == DEFAULT_CONFIG.connection
IdleCall == [op |-> "none", phase |-> "idle", i |-> 0, await |-> FALSE, baseDir |-> "", dirs |-> <<>>, files |-> <<>>, script |-> "", conn |-> NoConn, cb |-> "none", pre |-> {}]

\* the call of a method: its arguments, the loop index at its start
NewCall(op, i, baseDir, dirs, fs, script, conn, cb) ==
    [op |-> op, phase |-> "run", i |-> i, await |-> FALSE, baseDir |-> baseDir, dirs |-> dirs, files |-> fs, script |-> script, conn |-> conn, cb |-> cb, pre |-> remoteDirs]

Running(op) == call.op = op /\ call.phase = "run"

\* the method goes on, at loop index i, after the entries are logged
Continue(entries, i) ==
    /\ log' = log \o entries
    /\ call' = [call EXCEPT !.i = i, !.await = FALSE]
    /\ ret' = ret

\* the method ends after the entries are logged: it returns or throws r
End(entries, r) ==
    /\ log' = log \o entries \o <<Ev("return", <<call.op>>, r.status)>>
    /\ call' = [call EXCEPT !.phase = "done", !.await = FALSE]
    /\ ret' = r

\* `${baseDir}/${rel}`
RemotePath(baseDir, rel) == <<baseDir>> \o rel

(***************************************************************************)
(* The remote-session provider (node-ssh) and the remote host.             *)
(***************************************************************************)
\* how execCommand / putFile can end: without a ready session the provider
\* rejects the call and nothing reaches the host ("notConnected"); with one,
\* the command runs and exits 0 ("ok") or not ("fail": execCommand resolves
\* all the same, with the exit code in result.code), or the provider rejects
\* the call ("throw")
ExecOutcomes == IF sshConn = "ready" THEN {"ok", "fail", "throw"} ELSE {"notConnected"}
PutOutcomes == IF sshConn = "ready" THEN {"ok", "throw"} ELSE {"notConnected"}

\* mkdir of a path that exists: with -p it exits 0, without it exits 1
MkdirOutcomes(path, pFlag) ==
    IF sshConn # "ready" THEN {"notConnected"}
    ELSE IF path \in remoteDirs THEN (IF pFlag THEN {"ok", "throw"} ELSE {"fail", "throw"})
    ELSE {"ok", "fail", "throw"}

Rejected(outcome) == outcome \in {"throw", "notConnected"}

\* the outcomes with which a log entry is a command or transfer that reached the host
Issued(e) == e.kind \in {"info", "mkdir", "putStart", "put", "test", "chmod", "run"} /\ e.res # "notConnected"

(***************************************************************************)
(* class SSHDeployer                                                       *)
(***************************************************************************)
\* await this.ssh.connect(config); this.connected = true
SshConnect(auth) ==
    \E o \in {"ok", "Authentication failed", "ECONNREFUSED"} :
        IF o = "ok"
        THEN /\ sshConn' = "ready"
             /\ connects' = connects + 1
             /\ connected' = TRUE
             /\ End(<<Ev("ssh.connect", <<auth>>, o)>>, Returned(NoValue))
        ELSE /\ sshConn' = "failed"
             /\ UNCHANGED <<connects, connected>>
             /\ End(<<Ev("ssh.connect", <<auth>>, o)>>, Threw(ProviderErr(o)))

\* connect(connectionConfig) with the password looked at before the private key
ConnectPasswordFirst ==
    /\ Running("connect")
    /\ IF call.conn.password # "" THEN SshConnect("password")
       ELSE IF call.conn.privateKeyPath # ""
       THEN \E keyFileExists \in BOOLEAN :
               IF keyFileExists THEN SshConnect("privateKey")
               ELSE /\ End(<<>>, Threw(Err("Private key file not found", <<call.conn.privateKeyPath>>, -1)))
                    /\ UNCHANGED objVars
       ELSE /\ End(<<>>, Threw(Err("No authentication method provided (password or private key)", <<>>, -1)))
            /\ UNCHANGED objVars
    /\ UNCHANGED <<disposes, remoteDirs, inFlight, progress, cmdVars, calls, fnVars>>

\* connect(connectionConfig)
Connect ==
    /\ Running("connect")
    /\ IF call.conn.privateKeyPath # ""
       THEN \E keyFileExists \in BOOLEAN :
               IF keyFileExists THEN SshConnect("privateKey")
               ELSE /\ End(<<>>, Threw(Err("Private key file not found", <<call.conn.privateKeyPath>>, -1)))
                    /\ UNCHANGED objVars
       ELSE IF call.conn.password # "" THEN SshConnect("password")
       ELSE /\ End(<<>>, Threw(Err("No authentication method provided (password or private key)", <<>>, -1)))
            /\ UNCHANGED objVars
    /\ UNCHANGED <<disposes, remoteDirs, inFlight, progress, cmdVars, calls, fnVars>>

\* disconnect() without the test of this.connected: dispose at every call
DisconnectAlwaysDispose(before) ==
    /\ connected' = FALSE
    /\ sshConn' = "disposed"
    /\ disposes' = disposes + 1
    /\ log' = before \o <<Ev("disconnect", <<>>, "call"), Ev("dispose", <<>>, "ok")>>
    /\ UNCHANGED connects

\* disconnect(), its entries logged after those of `before`
Disconnect(before) ==
    /\ connected' = FALSE
    /\ sshConn' = IF connected THEN "disposed" ELSE sshConn
    /\ disposes' = IF connected THEN disposes + 1 ELSE disposes
    /\ log' = before \o <<Ev("disconnect", <<>>, "call")>> \o (IF connected THEN <<Ev("dispose", <<>>, "ok")>> ELSE <<>>)
    /\ UNCHANGED connects

\* disconnect() without the dispose
DisconnectNoDispose(before) ==
    /\ connected' = FALSE
    /\ log' = before \o <<Ev("disconnect", <<>>, "call")>>
    /\ UNCHANGED <<sshConn, disposes, connects>>

\* mkdir "path", without -p
MkdirCommandNoP(path) == [path |-> path, pFlag |-> FALSE]

\* the command createDirectories runs for a path: mkdir -p "path"
MkdirCommand(path) == [path |-> path, pFlag |-> TRUE]

\* createDirectories(baseDir, directories, onProgress): one mkdir, of baseDir
\* (i = 0) and then of each directory (i = 1, 2, ...); the result of
\* execCommand is not looked at
Mkdir ==
    /\ Running("createDirectories")
    /\ call.i <= Len(call.dirs)
    /\ LET cmd == MkdirCommand(IF call.i = 0 THEN <<call.baseDir>> ELSE RemotePath(call.baseDir, call.dirs[call.i]))
       IN  \E o \in MkdirOutcomes(cmd.path, cmd.pFlag) :
              IF Rejected(o)
              THEN /\ End(<<Ev("mkdir", cmd.path, o)>>, Threw(ProviderErr("execCommand")))
                   /\ UNCHANGED <<remoteDirs, progress>>
              ELSE /\ remoteDirs' = IF o = "ok" THEN remoteDirs \cup Prefixes(cmd.path) ELSE remoteDirs
                   /\ progress' = IF call.i >= 1 /\ call.cb # "none" THEN Append(progress, [dir |-> call.dirs[call.i]]) ELSE progress
                   /\ Continue(<<Ev("mkdir", cmd.path, o)>>, call.i + 1)
    /\ UNCHANGED <<objVars, inFlight, cmdVars, calls, fnVars>>

CreateDirectoriesReturn ==
    /\ Running("createDirectories")
    /\ call.i > Len(call.dirs)
    /\ End(<<>>, Returned(NoValue))
    /\ UNCHANGED <<objVars, remoteDirs, inFlight, progress, cmdVars, calls, fnVars>>

\* Math.round((current / total) * 100)
Percent(current, total) == (200 * current + total) \div (2 * total)

\* uploadFiles(baseDir, files, onProgress): this.ssh.putFile(file.local,
\* remotePath) is called for files[i] (i from 0) ...
PutStart ==
    /\ Running("uploadFiles")
    /\ ~call.await
    /\ call.i < Len(call.files)
    /\ LET remotePath == RemotePath(call.baseDir, call.files[call.i + 1].remote)
       IN  IF sshConn = "ready"
           THEN /\ inFlight' = inFlight \cup {remotePath}
                /\ log' = Append(log, Ev("putStart", remotePath, "started"))
                /\ call' = [call EXCEPT !.await = TRUE]
                /\ ret' = ret
           ELSE /\ End(<<Ev("put", remotePath, "notConnected")>>, Threw(ProviderErr("putFile")))
                /\ UNCHANGED inFlight
    /\ UNCHANGED <<objVars, remoteDirs, progress, cmdVars, calls, fnVars>>

\* AfterPut with onProgress(i, total, file.remote)
AfterPutOffByOne(remotePath) ==
    /\ progress' = IF call.cb # "none" THEN Append(progress, [completed |-> call.i, total |-> Len(call.files), remote |-> call.files[call.i + 1].remote]) ELSE progress
    /\ lastPercent' = lastPercent
    /\ Continue(<<Ev("put", remotePath, "ok")>>, call.i + 1)

\* what uploadFiles does once putFile has resolved for files[i]: onProgress(i + 1,
\* total, file.remote) when there is an onProgress, and on to the next file.
\* The onProgress of deployCommand draws the progress bar: it sets lastPercent
\* and calls process.stdout.clearLine, which only a terminal has.
AfterPut(remotePath) ==
    LET file == call.files[call.i + 1]
        total == Len(call.files)
        note == [completed |-> call.i + 1, total |-> total, remote |-> file.remote]
        percent == Percent(call.i + 1, total)
    IN  /\ progress' = IF call.cb # "none" THEN Append(progress, note) ELSE progress
        /\ IF call.cb = "deployCommand" /\ percent # lastPercent
           THEN /\ lastPercent' = percent
                /\ IF isTTY THEN Continue(<<Ev("put", remotePath, "ok")>>, call.i + 1)
                   ELSE End(<<Ev("put", remotePath, "ok")>>, Threw(Err("process.stdout.clearLine is not a function", <<>>, -1)))
           ELSE /\ lastPercent' = lastPercent
                /\ Continue(<<Ev("put", remotePath, "ok")>>, call.i + 1)

\* PutRejected with the rejection caught and the loop going on
PutRejectedGoOn(remotePath) ==
    /\ Continue(<<Ev("put", remotePath, "throw")>>, call.i + 1)
    /\ UNCHANGED <<progress, lastPercent>>

\* what uploadFiles does once putFile has rejected for files[i]: nothing, the
\* rejection of the provider leaves uploadFiles as it is
PutRejected(remotePath) ==
    /\ End(<<Ev("put", remotePath, "throw")>>, Threw(ProviderErr("putFile")))
    /\ UNCHANGED <<progress, lastPercent>>

\* ... and the await ends when putFile resolves or rejects
PutEnd ==
    /\ Running("uploadFiles")
    /\ call.await
    /\ LET remotePath == RemotePath(call.baseDir, call.files[call.i + 1].remote)
       IN  /\ inFlight' = inFlight \ {remotePath}
           /\ \E o \in {"ok", "throw"} : IF o = "ok" THEN AfterPut(remotePath) ELSE PutRejected(remotePath)
    /\ UNCHANGED <<objVars, remoteDirs, pc, options, fileConfig, config, tree, files, directories, exitCode, isTTY, calls, fnVars>>

UploadFilesReturn ==
    /\ Running("uploadFiles")
    /\ ~call.await
    /\ call.i >= Len(call.files)
    /\ End(<<>>, Returned(NoValue))
    /\ UNCHANGED <<objVars, remoteDirs, inFlight, progress, cmdVars, calls, fnVars>>

\* ScriptTest without the look at checkResult.stdout
ScriptTestNoCheck ==
    /\ Running("executeScript")
    /\ call.i = 0
    /\ LET scriptPath == RemotePath(call.baseDir, <<call.script>>)
       IN  \E o \in ExecOutcomes :
              IF Rejected(o) THEN End(<<Ev("test", scriptPath, o)>>, Threw(ProviderErr("execCommand")))
              ELSE Continue(<<Ev("test", scriptPath, o)>>, 1)
    /\ UNCHANGED <<objVars, remoteDirs, inFlight, progress, cmdVars, calls, fnVars>>

\* ScriptRun where a non-zero exit code of the script is thrown
ScriptRunThrowOnNonZero ==
    /\ Running("executeScript")
    /\ call.i = 2
    /\ LET scriptPath == RemotePath(call.baseDir, <<call.script>>)
       IN  \E o \in ExecOutcomes :
              IF Rejected(o) THEN End(<<Ev("run", scriptPath, o)>>, Threw(ProviderErr("execCommand")))
              ELSE IF o = "fail" THEN End(<<Ev("run", scriptPath, o)>>, Threw(Err("Script failed", scriptPath, -1)))
              ELSE End(<<Ev("run", scriptPath, o)>>, Returned([code |-> 0, found |-> TRUE]))
    /\ UNCHANGED <<objVars, remoteDirs, inFlight, progress, cmdVars, calls, fnVars>>

\* executeScript(baseDir, scriptName): test -f "scriptPath" && echo "exists"
ScriptTest ==
    /\ Running("executeScript")
    /\ call.i = 0
    /\ LET scriptPath == RemotePath(call.baseDir, <<call.script>>)
       IN  \E o \in ExecOutcomes :
              IF Rejected(o) THEN End(<<Ev("test", scriptPath, o)>>, Threw(ProviderErr("execCommand")))
              ELSE IF o = "fail" THEN End(<<Ev("test", scriptPath, o)>>, Threw(Err("Script not found", scriptPath, -1)))
              ELSE Continue(<<Ev("test", scriptPath, o)>>, 1)
    /\ UNCHANGED <<objVars, remoteDirs, inFlight, progress, cmdVars, calls, fnVars>>

\* chmod +x "scriptPath"
ScriptChmod ==
    /\ Running("executeScript")
    /\ call.i = 1
    /\ LET scriptPath == RemotePath(call.baseDir, <<call.script>>)
       IN  \E o \in ExecOutcomes :
              IF Rejected(o) THEN End(<<Ev("chmod", scriptPath, o)>>, Threw(ProviderErr("execCommand")))
              ELSE Continue(<<Ev("chmod", scriptPath, o)>>, 2)
    /\ UNCHANGED <<objVars, remoteDirs, inFlight, progress, cmdVars, calls, fnVars>>

\* cd "baseDir" && bash "scriptPath", with cwd baseDir; the result is returned
ScriptRun ==
    /\ Running("executeScript")
    /\ call.i = 2
    /\ LET scriptPath == RemotePath(call.baseDir, <<call.script>>)
       IN  \E o \in ExecOutcomes :
              IF Rejected(o) THEN End(<<Ev("run", scriptPath, o)>>, Threw(ProviderErr("execCommand")))
              ELSE End(<<Ev("run", scriptPath, o)>>, Returned([code |-> IF o = "ok" THEN 0 ELSE 1, found |-> TRUE]))
    /\ UNCHANGED <<objVars, remoteDirs, inFlight, progress, cmdVars, calls, fnVars>>

\* the steps of the methods of SSHDeployer
Methods ==
    \/ Connect
    \/ Mkdir
    \/ CreateDirectoriesReturn
    \/ PutStart
    \/ PutEnd
    \/ UploadFilesReturn
    \/ ScriptTest
    \/ ScriptChmod
    \/ ScriptRun

(***************************************************************************)
(* deployCommand(options)                                                  *)
(***************************************************************************)
\* an await in deployCommand has ended: the method returned or threw
Awaited(at) == pc = at /\ call.phase = "done"

\* loadConfig, mergeWithCliOptions, validateConfig; process.exit(1) when a
\* required field is missing
DLoadConfig ==
    /\ pc = "start"
    /\ \E parses \in BOOLEAN :
          IF parses
          THEN LET merged == mergeWithCliOptions(fileConfig, options)
               IN  /\ config' = merged
                   /\ ret' = ret
                   /\ log' = Append(log, Ev("config", <<>>, IF validateConfigIsValid(merged) THEN "ok" ELSE "invalid"))
                   /\ IF validateConfigIsValid(merged)
                      THEN pc' = "scan" /\ exitCode' = exitCode
                      ELSE pc' = "exited" /\ exitCode' = 1
          ELSE /\ pc' = "catch"
               /\ ret' = Threw(Err("Failed to parse config file", <<>>, -1))
               /\ log' = Append(log, Ev("config", <<>>, "throw"))
               /\ UNCHANGED <<config, exitCode>>
    /\ UNCHANGED <<objVars, call, remoteDirs, inFlight, progress, options, fileConfig, tree, files, directories, lastPercent, isTTY, calls, fnVars>>

\* DScan without the exit when no file was found
DScanNoExit ==
    /\ pc = "scan"
    /\ LET scan == scanDirectory(tree, <<>>, config.deploy)
       IN  IF scan.err
           THEN /\ pc' = "catch"
                /\ ret' = Threw(Err("readdirSync", <<>>, -1))
                /\ log' = Append(log, Ev("scan", <<>>, "throw"))
                /\ UNCHANGED <<files, directories, exitCode>>
           ELSE /\ files' = scan.files
                /\ directories' = getRemoteDirectories(scan.files)
                /\ log' = log \o <<Ev("scan", <<>>, "ok"), Ev("plan", <<>>, "ok")>>
                /\ ret' = ret
                /\ pc' = "connect" /\ exitCode' = exitCode
    /\ UNCHANGED <<objVars, call, remoteDirs, inFlight, progress, options, fileConfig, config, tree, lastPercent, isTTY, calls, fnVars>>

\* scanDirectory(process.cwd(), config.deploy), getRemoteDirectories(files);
\* process.exit(0) when there is no file
DScan ==
    /\ pc = "scan"
    /\ LET scan == scanDirectory(tree, <<>>, config.deploy)
       IN  IF scan.err
           THEN /\ pc' = "catch"
                /\ ret' = Threw(Err("readdirSync", <<>>, -1))
                /\ log' = Append(log, Ev("scan", <<>>, "throw"))
                /\ UNCHANGED <<files, directories, exitCode>>
           ELSE /\ files' = scan.files
                /\ directories' = getRemoteDirectories(scan.files)
                /\ log' = log \o <<Ev("scan", <<>>, "ok"), Ev("plan", <<>>, "ok")>>
                /\ ret' = ret
                /\ IF Len(scan.files) = 0
                   THEN pc' = "exited" /\ exitCode' = 0
                   ELSE pc' = "connect" /\ exitCode' = exitCode
    /\ UNCHANGED <<objVars, call, remoteDirs, inFlight, progress, options, fileConfig, config, tree, lastPercent, isTTY, calls, fnVars>>

\* deployCommand calls a method of the deployer and awaits it at pc `at`
DCall(c, at) ==
    /\ call' = c
    /\ ret' = NoRet
    /\ log' = Append(log, Ev("call", <<>>, c.op))
    /\ pc' = at

\* await deployer.connect(config.connection)
DCallConnect ==
    /\ pc = "connect"
    /\ DCall(NewCall("connect", 0, "", <<>>, <<>>, "", config.connection, "none"), "connecting")
    /\ UNCHANGED <<objVars, remoteDirs, inFlight, progress, options, fileConfig, config, tree, files, directories, lastPercent, exitCode, isTTY, calls, fnVars>>

\* DAfter with the rejection ignored
DAfterIgnoreThrow(at, next) ==
    /\ Awaited(at)
    /\ pc' = next
    /\ UNCHANGED <<objVars, callVars, envVars, options, fileConfig, config, tree, files, directories, lastPercent, exitCode, isTTY, calls, fnVars>>

\* after an await: a rejection goes to the catch block, otherwise on to `next`
DAfter(at, next) ==
    /\ Awaited(at)
    /\ pc' = IF ret.status = "throw" THEN "catch" ELSE next
    /\ UNCHANGED <<objVars, callVars, envVars, options, fileConfig, config, tree, files, directories, lastPercent, exitCode, isTTY, calls, fnVars>>

DAfterConnect == DAfter("connecting", "info")

\* try { await deployer.getServerInfo() } catch (e) {}: the three commands
\* hostname, os-release, uptime; when command k is rejected the later ones are
\* not run (k = 4: none is rejected)
DGetServerInfo ==
    /\ pc = "info"
    /\ \E k \in 1..4 :
          log' = log \o [j \in 1..(IF k < 3 THEN k ELSE 3) |-> Ev("info", <<>>, IF j = k THEN "throw" ELSE "ok")]
    /\ pc' = "dirs"
    /\ UNCHANGED <<objVars, callVars, remoteDirs, inFlight, progress, options, fileConfig, config, tree, files, directories, lastPercent, exitCode, isTTY, calls, fnVars>>

\* if (directories.length > 0) await deployer.createDirectories(targetDirectory, directories)
DCallCreateDirectories ==
    /\ pc = "dirs"
    /\ Len(directories) > 0
    /\ DCall(NewCall("createDirectories", 0, config.connection.targetDirectory, directories, <<>>, "", NoConn, "none"), "creating")
    /\ UNCHANGED <<objVars, remoteDirs, inFlight, progress, options, fileConfig, config, tree, files, directories, lastPercent, exitCode, isTTY, calls, fnVars>>

\* DSkipCreateDirectories whatever the number of directories
DSkipCreateDirectoriesAlways ==
    /\ pc = "dirs"
    /\ pc' = "upload"
    /\ UNCHANGED <<objVars, callVars, envVars, options, fileConfig, config, tree, files, directories, lastPercent, exitCode, isTTY, calls, fnVars>>

DSkipCreateDirectories ==
    /\ pc = "dirs"
    /\ Len(directories) = 0
    /\ pc' = "upload"
    /\ UNCHANGED <<objVars, callVars, envVars, options, fileConfig, config, tree, files, directories, lastPercent, exitCode, isTTY, calls, fnVars>>

DAfterCreateDirectories == DAfter("creating", "upload")

\* let lastPercent = -1; await deployer.uploadFiles(targetDirectory, files, (current, total, filename) => ...)
DCallUploadFiles ==
    /\ pc = "upload"
    /\ lastPercent' = -1
    /\ isTTY' \in BOOLEAN
    /\ DCall(NewCall("uploadFiles", 0, config.connection.targetDirectory, <<>>, files, "", NoConn, "deployCommand"), "uploading")
    /\ UNCHANGED <<objVars, remoteDirs, inFlight, progress, options, fileConfig, config, tree, files, directories, exitCode, calls, fnVars>>

DAfterUploadFiles == DAfter("uploading", "uploaded")

\* if (options.run !== undefined) ... await deployer.executeScript(targetDirectory, scriptName)
DCallExecuteScript ==
    /\ pc = "uploaded"
    /\ options.run # RunUndefined
    /\ LET scriptName == IF options.run # RunTrue THEN options.run ELSE config.scripts.afterDeploy
       IN  DCall(NewCall("executeScript", 0, config.connection.targetDirectory, <<>>, <<>>, scriptName, NoConn, "none"), "scripting")
    /\ UNCHANGED <<objVars, remoteDirs, inFlight, progress, options, fileConfig, config, tree, files, directories, lastPercent, exitCode, isTTY, calls, fnVars>>

\* deployer.disconnect() at the end of the try block, then deployCommand returns
DFinish ==
    /\ \/ pc = "uploaded" /\ options.run = RunUndefined
       \/ Awaited("scripting")
    /\ Disconnect(log)
    /\ pc' = "done"
    /\ exitCode' = 0
    /\ UNCHANGED <<callVars, remoteDirs, inFlight, progress, options, fileConfig, config, tree, files, directories, lastPercent, isTTY, calls, fnVars>>

\* DCatch without deployer.disconnect()
DCatchNoDisconnect ==
    /\ pc = "catch"
    /\ pc' = "exited"
    /\ exitCode' = 1
    /\ UNCHANGED <<objVars, callVars, envVars, options, fileConfig, config, tree, files, directories, lastPercent, isTTY, calls, fnVars>>

\* catch (error) { ...; deployer.disconnect(); process.exit(1) }
DCatch ==
    /\ pc = "catch"
    /\ Disconnect(log)
    /\ pc' = "exited"
    /\ exitCode' = 1
    /\ UNCHANGED <<callVars, remoteDirs, inFlight, progress, options, fileConfig, config, tree, files, directories, lastPercent, isTTY, calls, fnVars>>

Init ==
    /\ connected = FALSE
    /\ sshConn = "none"
    /\ connects = 0
    /\ disposes = 0
    /\ call = IdleCall
    /\ ret = NoRet
    /\ remoteDirs = {}
    /\ inFlight = {}
    /\ log = <<>>
    /\ progress = <<>>
    /\ pc = "start"
    /\ \E c \in ConfigCases, d \in DeployCases, r \in RunOptions :
          /\ fileConfig = [DEFAULT_CONFIG EXCEPT !.connection = c.file, !.deploy = d]
          /\ options = [ip |-> c.cli.ip, user |-> c.cli.user, password |-> c.cli.password, key |-> c.cli.key, directory |-> c.cli.directory, run |-> r]
    /\ config = DEFAULT_CONFIG
    /\ tree \in Trees
    /\ files = <<>>
    /\ directories = <<>>
    /\ lastPercent = -1
    /\ exitCode = -1
    /\ isTTY = TRUE
    /\ calls = 0
    /\ planIn = <<>>
    /\ planOut = [done |-> FALSE, dirs |-> <<>>]
    /\ scanIn = NoScanIn
    /\ scanOut = NoScanOut
    /\ matchIn = NoMatchIn
    /\ matchOut = NoMatchOut
    /\ mergeIn = NoMergeIn
    /\ mergeOut = NoMergeOut

Next ==
    \/ DLoadConfig
    \/ DScan
    \/ DCallConnect
    \/ DAfterConnect
    \/ DGetServerInfo
    \/ DCallCreateDirectories
    \/ DSkipCreateDirectories
    \/ DAfterCreateDirectories
    \/ DCallUploadFiles
    \/ DAfterUploadFiles
    \/ DCallExecuteScript
    \/ DFinish
    \/ DCatch
    \/ Methods

Spec == Init /\ [][Next]_vars

(***************************************************************************)
(* The SSHDeployer alone: a caller that makes up to MaxCalls calls of its   *)
(* methods, in any order, each awaited before the next.  The log and the   *)
(* notifications are those of the call in progress or last ended.          *)
(***************************************************************************)
CanCall == call.phase \in {"idle", "done"} /\ calls < MaxCalls

HCall(c) ==
    /\ CanCall
    /\ call' = c
    /\ ret' = NoRet
    /\ log' = <<Ev("call", <<>>, c.op)>>
    /\ progress' = <<>>
    /\ calls' = calls + 1

HConnect ==
    /\ \E c \in ConnCases : HCall(NewCall("connect", 0, "", <<>>, <<>>, "", c, "none"))
    /\ UNCHANGED <<objVars, remoteDirs, inFlight, cmdVars, fnVars>>

HDisconnect ==
    /\ CanCall
    /\ Disconnect(<<>>)
    /\ call' = [NewCall("disconnect", 0, "", <<>>, <<>>, "", NoConn, "none") EXCEPT !.phase = "done"]
    /\ ret' = Returned(NoValue)
    /\ progress' = <<>>
    /\ calls' = calls + 1
    /\ UNCHANGED <<remoteDirs, inFlight, cmdVars, fnVars>>

HCreateDirectories ==
    /\ \E b \in BaseDirs, ds \in DirLists : HCall(NewCall("createDirectories", 0, b, ds, <<>>, "", NoConn, "record"))
    /\ UNCHANGED <<objVars, remoteDirs, inFlight, cmdVars, fnVars>>

HUploadFiles ==
    /\ \E n \in 0..MaxFiles, cb \in {"none", "record"} : HCall(NewCall("uploadFiles", 0, "/var/www/app", <<>>, Prefix(UploadList, n), "", NoConn, cb))
    /\ UNCHANGED <<objVars, remoteDirs, inFlight, cmdVars, fnVars>>

HExecuteScript ==
    /\ HCall(NewCall("executeScript", 0, "/var/www/app", <<>>, <<>>, "deploy.sh", NoConn, "none"))
    /\ UNCHANGED <<objVars, remoteDirs, inFlight, cmdVars, fnVars>>

InitDeployer ==
    /\ connected = FALSE
    /\ sshConn = "none"
    /\ connects = 0
    /\ disposes = 0
    /\ call = IdleCall
    /\ ret = NoRet
    /\ remoteDirs = {}
    /\ inFlight = {}
    /\ log = <<>>
    /\ progress = <<>>
    /\ pc = "none"
    /\ fileConfig = DEFAULT_CONFIG
    /\ options = [ip |-> "", user |-> "", password |-> "", key |-> "", directory |-> "", run |-> RunUndefined]
    /\ config = DEFAULT_CONFIG
    /\ tree = [items |-> <<>>, unreadable |-> {}]
    /\ files = <<>>
    /\ directories = <<>>
    /\ lastPercent = -1
    /\ exitCode = -1
    /\ isTTY = TRUE
    /\ calls = 0
    /\ planIn = <<>>
    /\ planOut = [done |-> FALSE, dirs |-> <<>>]
    /\ scanIn = NoScanIn
    /\ scanOut = NoScanOut
    /\ matchIn = NoMatchIn
    /\ matchOut = NoMatchOut
    /\ mergeIn = NoMergeIn
    /\ mergeOut = NoMergeOut

NextDeployer ==
    \/ HConnect
    \/ HDisconnect
    \/ HCreateDirectories
    \/ HUploadFiles
    \/ HExecuteScript
    \/ Methods

SpecDeployer == InitDeployer /\ [][NextDeployer]_vars

(***************************************************************************)
(* getRemoteDirectories alone, on every list of at most MaxPlanFiles file   *)
(* entries with remote paths in PlanPaths.                                 *)
(***************************************************************************)
InitPlan ==
    /\ connected = FALSE
    /\ sshConn = "none"
    /\ connects = 0
    /\ disposes = 0
    /\ call = IdleCall
    /\ ret = NoRet
    /\ remoteDirs = {}
    /\ inFlight = {}
    /\ log = <<>>
    /\ progress = <<>>
    /\ pc = "none"
    /\ fileConfig = DEFAULT_CONFIG
    /\ options = [ip |-> "", user |-> "", password |-> "", key |-> "", directory |-> "", run |-> RunUndefined]
    /\ config = DEFAULT_CONFIG
    /\ tree = [items |-> <<>>, unreadable |-> {}]
    /\ files = <<>>
    /\ directories = <<>>
    /\ lastPercent = -1
    /\ exitCode = -1
    /\ isTTY = TRUE
    /\ calls = 0
    /\ planIn \in SeqsUpTo({Entry(p) : p \in PlanPaths}, MaxPlanFiles)
    /\ planOut = [done |-> FALSE, dirs |-> <<>>]
    /\ scanIn = NoScanIn
    /\ scanOut = NoScanOut
    /\ matchIn = NoMatchIn
    /\ matchOut = NoMatchOut
    /\ mergeIn = NoMergeIn
    /\ mergeOut = NoMergeOut

Plan ==
    /\ ~planOut.done
    /\ planOut' = [done |-> TRUE, dirs |-> getRemoteDirectories(planIn)]
    /\ UNCHANGED <<objVars, callVars, envVars, cmdVars, calls, planIn, scanVars, matchVars, mergeVars>>

NextPlan == Plan

SpecPlan == InitPlan /\ [][NextPlan]_vars

(***************************************************************************)
(* scanDirectory alone, on every tree of ScanTrees with every rule set of  *)
(* ScanRules.                                                              *)
(***************************************************************************)
InitScan ==
    /\ connected = FALSE
    /\ sshConn = "none"
    /\ connects = 0
    /\ disposes = 0
    /\ call = IdleCall
    /\ ret = NoRet
    /\ remoteDirs = {}
    /\ inFlight = {}
    /\ log = <<>>
    /\ progress = <<>>
    /\ pc = "none"
    /\ fileConfig = DEFAULT_CONFIG
    /\ options = [ip |-> "", user |-> "", password |-> "", key |-> "", directory |-> "", run |-> RunUndefined]
    /\ config = DEFAULT_CONFIG
    /\ tree = [items |-> <<>>, unreadable |-> {}]
    /\ files = <<>>
    /\ directories = <<>>
    /\ lastPercent = -1
    /\ exitCode = -1
    /\ isTTY = TRUE
    /\ calls = 0
    /\ planIn = <<>>
    /\ planOut = [done |-> FALSE, dirs |-> <<>>]
    /\ scanIn \in {[tree |-> t, rules |-> r] : t \in ScanTrees, r \in ScanRules}
    /\ scanOut = NoScanOut
    /\ matchIn = NoMatchIn
    /\ matchOut = NoMatchOut
    /\ mergeIn = NoMergeIn
    /\ mergeOut = NoMergeOut

Scan ==
    /\ ~scanOut.done
    /\ LET scan == scanDirectory(scanIn.tree, <<>>, scanIn.rules)
       IN  scanOut' = [done |-> TRUE, err |-> scan.err, files |-> scan.files]
    /\ UNCHANGED <<objVars, callVars, envVars, cmdVars, calls, planVars, scanIn, matchVars, mergeVars>>

NextScan == Scan

SpecScan == InitScan /\ [][NextScan]_vars

(***************************************************************************)
(* matchesPattern alone, on every name of MatchNames with every list of    *)
(* MatchPatternLists.                                                      *)
(***************************************************************************)
InitMatch ==
    /\ connected = FALSE
    /\ sshConn = "none"
    /\ connects = 0
    /\ disposes = 0
    /\ call = IdleCall
    /\ ret = NoRet
    /\ remoteDirs = {}
    /\ inFlight = {}
    /\ log = <<>>
    /\ progress = <<>>
    /\ pc = "none"
    /\ fileConfig = DEFAULT_CONFIG
    /\ options = [ip |-> "", user |-> "", password |-> "", key |-> "", directory |-> "", run |-> RunUndefined]
    /\ config = DEFAULT_CONFIG
    /\ tree = [items |-> <<>>, unreadable |-> {}]
    /\ files = <<>>
    /\ directories = <<>>
    /\ lastPercent = -1
    /\ exitCode = -1
    /\ isTTY = TRUE
    /\ calls = 0
    /\ planIn = <<>>
    /\ planOut = [done |-> FALSE, dirs |-> <<>>]
    /\ scanIn = NoScanIn
    /\ scanOut = NoScanOut
    /\ matchIn \in {[name |-> n, patterns |-> ps] : n \in MatchNames, ps \in MatchPatternLists}
    /\ matchOut = NoMatchOut
    /\ mergeIn = NoMergeIn
    /\ mergeOut = NoMergeOut

Match ==
    /\ ~matchOut.done
    /\ matchOut' = [done |-> TRUE, result |-> matchesPatternChars(matchIn.name, matchIn.patterns)]
    /\ UNCHANGED <<objVars, callVars, envVars, cmdVars, calls, planVars, scanVars, matchIn, mergeVars>>

NextMatch == Match

SpecMatch == InitMatch /\ [][NextMatch]_vars

(***************************************************************************)
(* mergeWithCliOptions alone, on every configuration of MergeConfigs with  *)
(* every option set of MergeOptions.                                       *)
(***************************************************************************)
InitMerge ==
    /\ connected = FALSE
    /\ sshConn = "none"
    /\ connects = 0
    /\ disposes = 0
    /\ call = IdleCall
    /\ ret = NoRet
    /\ remoteDirs = {}
    /\ inFlight = {}
    /\ log = <<>>
    /\ progress = <<>>
    /\ pc = "none"
    /\ fileConfig = DEFAULT_CONFIG
    /\ options = [ip |-> "", user |-> "", password |-> "", key |-> "", directory |-> "", run |-> RunUndefined]
    /\ config = DEFAULT_CONFIG
    /\ tree = [items |-> <<>>, unreadable |-> {}]
    /\ files = <<>>
    /\ directories = <<>>
    /\ lastPercent = -1
    /\ exitCode = -1
    /\ isTTY = TRUE
    /\ calls = 0
    /\ planIn = <<>>
    /\ planOut = [done |-> FALSE, dirs |-> <<>>]
    /\ scanIn = NoScanIn
    /\ scanOut = NoScanOut
    /\ matchIn = NoMatchIn
    /\ matchOut = NoMatchOut
    /\ mergeIn \in {[config |-> c, options |-> o] : c \in MergeConfigs, o \in MergeOptions}
    /\ mergeOut = NoMergeOut

Merge ==
    /\ ~mergeOut.done
    /\ mergeOut' = [done |-> TRUE, config |-> mergeWithCliOptions(mergeIn.config, mergeIn.options)]
    /\ UNCHANGED <<objVars, callVars, envVars, cmdVars, calls, planVars, scanVars, matchVars, mergeIn>>

NextMerge == Merge

SpecMerge == InitMerge /\ [][NextMerge]_vars

(***************************************************************************)
(* Properties.                                                             *)
(***************************************************************************)
\* the positions of log
Pos == 1..Len(log)

\* deployCommand has ended: it returned or called process.exit
Terminated == pc \in {"done", "exited"}

\* disconnect() was invoked
DisconnectCalled == \E n \in Pos : log[n].kind = "disconnect"

\* connect() was invoked
ConnectCalled == \E n \in Pos : log[n] = Ev("call", <<>>, "connect")

\* an error was raised in the try block of deployCommand and reached its catch block
Raised == \E n \in Pos : log[n].kind \in {"config", "scan", "return"} /\ log[n].res = "throw" /\ log[n].path # <<"executeScript">>

\* a stage of the run failed: an error was raised, or the configuration is incomplete
StageFailed == \E n \in Pos : log[n].kind \in {"config", "scan", "return"} /\ log[n].res \in {"throw", "invalid"}

\* C1 as stated: in every deployment run, whatever stage fails (config, scan,
\* connect, createDirectories, uploadFiles, executeScript), disconnect() is
\* invoked before the run terminates, and on every exit path connected is
\* false and the session has been disposed if it was ever opened.
C1_DisconnectWhateverStageFails ==
    Terminated =>
        /\ StageFailed => DisconnectCalled
        /\ ~connected
        /\ connects > 0 => sshConn = "disposed"

\* C1 as amended: in every deployment run that ends after an error was raised
\* (by loading the configuration, the scan, connect, createDirectories,
\* uploadFiles or executeScript) or after connect() was invoked, disconnect()
\* has been invoked before the run terminates; a run ends without disconnect()
\* only by the exits for an incomplete configuration or for zero files, before
\* connect() is invoked; on every exit path connected is false and the session
\* has been disposed if it was ever opened.
C1_SessionReleasedOnExit ==
    Terminated =>
        /\ (Raised \/ ConnectCalled) => DisconnectCalled
        /\ ~DisconnectCalled => ~ConnectCalled /\ ((exitCode = 1 /\ files = <<>> /\ ~(\E n \in Pos : log[n].kind = "scan")) \/ (exitCode = 0 /\ files = <<>>))
        /\ ~connected
        /\ connects > 0 => sshConn = "disposed" /\ disposes = connects

\* C1 witness: a run that failed after the session was opened has ended
C1_Witness == pc = "exited" /\ exitCode = 1 /\ connects = 1 /\ sshConn = "disposed" /\ DisconnectCalled

\* the place of a log entry in the order of the stages of a run
Rank(e) ==
    CASE e.kind = "config" -> 0
      [] e.kind = "scan" -> 1
      [] e.kind = "plan" -> 2
      [] e.kind = "ssh.connect" \/ (e.kind = "call" /\ e.res = "connect") \/ (e.kind = "return" /\ e.path = <<"connect">>) -> 3
      [] e.kind = "info" -> 4
      [] e.kind = "mkdir" \/ (e.kind = "call" /\ e.res = "createDirectories") \/ (e.kind = "return" /\ e.path = <<"createDirectories">>) -> 5
      [] e.kind \in {"putStart", "put"} \/ (e.kind = "call" /\ e.res = "uploadFiles") \/ (e.kind = "return" /\ e.path = <<"uploadFiles">>) -> 6
      [] e.kind \in {"test", "chmod", "run"} \/ (e.kind = "call" /\ e.res = "executeScript") \/ (e.kind = "return" /\ e.path = <<"executeScript">>) -> 7
      [] e.kind \in {"disconnect", "dispose"} -> 8

\* before position n, the method op was called / has returned without an error
CalledBefore(op, n) == \E m \in 1..(n - 1) : log[m] = Ev("call", <<>>, op)
ReturnedOkBefore(op, n) == \E m \in 1..(n - 1) : log[m] = Ev("return", <<op>>, "ok")

C4_NoFilesNoConnect ==
    ((\E n \in Pos : log[n] = Ev("scan", <<>>, "ok")) /\ files = <<>>) =>
        /\ pc = "exited"
        /\ call.op = "none"
        /\ connects = 0 /\ sshConn = "none"
        /\ \A n \in Pos : log[n].kind \in {"config", "scan", "plan"}

\* C4 witness: a scan that found no file has ended the run
C4_Witness == pc = "exited" /\ files = <<>> /\ (\E n \in Pos : log[n] = Ev("scan", <<>>, "ok")) /\ tree.items # <<>>

\* the calls of putFile in the log (one that the provider rejects for want of
\* a session never starts a transfer)
IsPutCall(e) == e.kind = "putStart" \/ (e.kind = "put" /\ e.res = "notConnected")
PutCalls(l) == SelectSeq(l, IsPutCall)

\* the transfers in the log that ended well
PutsOk(l) == SelectSeq(l, LAMBDA e : e.kind = "put" /\ e.res = "ok")

\* C5: for every list of n files and every k in 1..n, if the transfer of file
\* #k fails then uploadFiles aborts: putFile was called for the files #1..#k,
\* once each and in order, and for no other, exactly k-1 completions have been
\* reported through onProgress, and uploadFiles has thrown.
C5_UploadFailureShortCircuits ==
    call.op = "uploadFiles" =>
        \A n \in Pos :
            (log[n].kind = "put" /\ log[n].res # "ok") =>
                LET k == Len(PutCalls(Prefix(log, n)))
                IN  /\ k \in 1..Len(call.files)
                    /\ log[n].path = RemotePath(call.baseDir, call.files[k].remote)
                    /\ PutCalls(log) = PutCalls(Prefix(log, n))
                    /\ \A j \in 1..k : PutCalls(log)[j].path = RemotePath(call.baseDir, call.files[j].remote)
                    /\ Len(PutsOk(log)) = k - 1
                    /\ call.cb # "none" => Len(progress) = k - 1
                    /\ call.phase = "done" /\ ret.status = "throw"

\* C5 witness: the transfer of file 3 of 5 has failed after 2 completions
C5_Witness ==
    /\ call.op = "uploadFiles" /\ call.cb = "record" /\ Len(call.files) = 5
    /\ Len(progress) = 2
    /\ log[Len(log) - 1] = Ev("put", RemotePath(call.baseDir, call.files[3].remote), "throw")

\* C6 as stated: when a file transfer fails inside uploadFiles, the error
\* surfaced to the caller is an UploadError that names the failing file and
\* carries the number of files transferred before it.
C6_UploadErrorNamesFileAndCount ==
    (call.op = "uploadFiles" /\ call.phase = "done") =>
        \A n \in Pos :
            (log[n].kind = "put" /\ log[n].res = "throw") =>
                /\ ret.status = "throw"
                /\ ret.error.msg = "UploadError"
                /\ ret.error.path = log[n].path
                /\ ret.error.completed = Len(PutsOk(log))

\* C7: uploadFiles transfers the files one at a time (at most one transfer in
\* flight) and gives onProgress one notification per transferred file, when
\* its transfer has ended; notification j has completed = j, total = the
\* number of entries and the remote path of file j; after a call that returned
\* the last notification has completed = total.
C7_SequentialProgress ==
    call.op = "uploadFiles" =>
        /\ Cardinality(inFlight) <= 1
        /\ inFlight # {} <=> (log[Len(log)].kind = "putStart")
        /\ \A n \in Pos : log[n].kind = "putStart" /\ n < Len(log) => log[n + 1].kind = "put" /\ log[n + 1].path = log[n].path
        /\ call.cb # "none" =>
              /\ Len(progress) = Len(PutsOk(log))
              /\ \A j \in 1..Len(progress) :
                    progress[j] = [completed |-> j, total |-> Len(call.files), remote |-> call.files[j].remote]
              /\ (call.phase = "done" /\ ret.status = "ok") => Len(progress) = Len(call.files)

\* C7 witness: a call with 5 files has returned after 5 notifications
C7_Witness ==
    /\ call.op = "uploadFiles" /\ call.cb = "record" /\ call.phase = "done" /\ ret.status = "ok"
    /\ Len(call.files) = 5 /\ Len(progress) = 5 /\ progress[5].completed = 5

\* C8 as stated: if the remote creation of a directory fails during
\* createDirectories, no later directory of the list is created, the call
\* fails with an error naming the failing path, and the run does not proceed
\* to uploadFiles.
C8_AbortOnDirectoryFailure ==
    \A n \in Pos :
        (log[n].kind = "mkdir" /\ log[n].res = "fail") =>
            /\ \A m \in (n + 1)..Len(log) : log[m].kind \notin {"mkdir", "putStart", "put"} /\ log[m] # Ev("call", <<>>, "uploadFiles")
            /\ \A m \in (n + 1)..Len(log) : log[m].kind = "return" /\ log[m].path = <<"createDirectories">> => log[m].res = "throw"
            /\ (call.op = "createDirectories" /\ call.phase = "done") => ret.error.path = log[n].path

\* the paths a call of createDirectories runs mkdir for
Targets(c) == {<<c.baseDir>>} \cup {RemotePath(c.baseDir, c.dirs[j]) : j \in 1..Len(c.dirs)}

\* C9: createDirectories is idempotent: run when every directory of its list
\* (and baseDir) already exists, no mkdir exits with an error, the call raises
\* no error (unless the provider rejects a command) and the set of remote
\* directories is left unchanged.
C9_CreateDirectoriesIdempotent ==
    (call.op = "createDirectories" /\ Targets(call) \subseteq call.pre) =>
        /\ remoteDirs = call.pre
        /\ \A n \in Pos : log[n].kind = "mkdir" => log[n].res # "fail"
        /\ ret.status = "throw" => \E n \in Pos : log[n].kind = "mkdir" /\ Rejected(log[n].res)
        /\ (call.phase = "done" /\ ret.status = "ok") => \A t \in Targets(call) : \E n \in Pos : log[n] = Ev("mkdir", t, "ok")

\* C9 witness: a list of three directories was created a second time, on a host
\* that has exactly these directories, and the call has returned
C9_Witness ==
    /\ call.op = "createDirectories" /\ call.phase = "done" /\ ret.status = "ok"
    /\ Len(call.dirs) = 3
    /\ call.pre = Targets(call)
    /\ calls = 3

\* C10: the output of getRemoteDirectories contains every ancestor prefix of
\* every entry's directory, and whenever D1 is an ancestor of D2 in the output,
\* D1 is at an earlier index than D2.
C10_PlanAncestorsFirst ==
    planOut.done =>
        /\ \A i \in 1..Len(planIn) : \A d \in Prefixes(dirname(planIn[i].remote)) : Includes(planOut.dirs, d)
        /\ \A m, n \in 1..Len(planOut.dirs) : IsAncestor(planOut.dirs[m], planOut.dirs[n]) => m < n

\* C10 witness: a plan for a file three directories deep listed before a file
\* one directory deep
C10_Witness ==
    /\ planOut.done
    /\ Len(planIn) >= 2 /\ Len(dirname(planIn[1].remote)) = 3 /\ Len(dirname(planIn[2].remote)) = 1
    /\ \E m, n \in 1..Len(planOut.dirs) : IsAncestor(planOut.dirs[m], planOut.dirs[n])

\* the ancestor directory prefixes of the remote paths of the entries
AncestorDirs(entries) == UNION {Prefixes(dirname(entries[i].remote)) : i \in 1..Len(entries)}

\* C11: the output of getRemoteDirectories holds no path twice, never holds
\* the root, and its set of elements is exactly the set of the ancestor
\* directory prefixes of the entries' remote paths ({a, a/b} for a/b/c.txt and
\* a/d.txt); entries that all live at the root give an empty plan.
C11_PlanDeduplicatedMinimal ==
    planOut.done =>
        /\ \A m, n \in 1..Len(planOut.dirs) : m # n => planOut.dirs[m] # planOut.dirs[n]
        /\ <<>> \notin Range(planOut.dirs)
        /\ Range(planOut.dirs) = AncestorDirs(planIn)
        /\ (\A i \in 1..Len(planIn) : Len(planIn[i].remote) = 1) => planOut.dirs = <<>>
        /\ planIn = <<Entry(<<"a", "b", "c.txt">>), Entry(<<"a", "d.txt">>)>> => planOut.dirs = <<<<"a">>, <<"a", "b">>>>

\* C11 witness: the plan of three entries, two of them in the same directory
\* below a shared ancestor and one at the root, has each directory once
C11_Witness ==
    /\ planOut.done
    /\ planIn = <<Entry(<<"a", "b", "c.txt">>), Entry(<<"a", "d.txt">>), Entry(<<"x.js">>)>>
    /\ planOut.dirs = <<<<"a">>, <<"a", "b">>>>

\* the files of a tree that the rules keep: those under no directory whose
\* name is in excludeDirectories, whose name is not in excludeFiles and for
\* whose name matchesPattern is false
Kept(t, rules) ==
    {it \in Range(t.items) :
        /\ ~it.isDir
        /\ \A n \in 1..(Len(it.path) - 1) : ~Includes(rules.excludeDirectories, it.path[n])
        /\ ~Includes(rules.excludeFiles, basename(it.path))
        /\ ~matchesPattern(basename(it.path), rules.excludePatterns)}

\* the directories of a tree outside every excluded subtree: the source
\* directory and the directories with no name of excludeDirectories on their path
Outside(t, rules) ==
    {<<>>} \cup {it.path : it \in {d \in Range(t.items) : d.isDir /\ \A n \in 1..Len(d.path) : ~Includes(rules.excludeDirectories, d.path[n])}}

RECURSIVE Reach(_, _, _, _)
Reach(p, s, k, dotAny) ==
    IF k = 0 THEN {0}
    ELSE LET before == Reach(p, s, k - 1, dotAny)
         IN  IF p[k] = "*" THEN {j \in 0..Len(s) : \E i \in before : i <= j}
             ELSE {i + 1 : i \in {h \in before : h < Len(s) /\ (s[h + 1] = p[k] \/ (dotAny /\ p[k] = "."))}}

\* the whole of the pattern matches the whole of the name
WholeMatch(p, s, dotAny) == Len(s) \in Reach(p, s, Len(p), dotAny)

\* the glob matcher in which '*' is the only wildcard
GlobMatch(p, s) == WholeMatch(p, s, FALSE)

\* C13: a pattern matches a file name only if it matches the entire name,
\* anchored at both ends, with '*' standing for zero or more arbitrary
\* characters: matchesPattern is true exactly when, for one of the patterns,
\* the whole pattern matches the whole name (a pattern without '*' is the
\* name itself), it is true whenever the glob matches the whole name,
\* matchesPattern("app.log", ["*.log"]) is true and
\* matchesPattern("app.log.bak", ["*.log"]) is false.
C13_PatternAnchoredBothEnds ==
    matchOut.done =>
        /\ matchOut.result <=>
              \E k \in 1..Len(matchIn.patterns) :
                  IF Includes(matchIn.patterns[k], "*") THEN WholeMatch(matchIn.patterns[k], matchIn.name, TRUE)
                  ELSE matchIn.name = matchIn.patterns[k]
        /\ (\E k \in 1..Len(matchIn.patterns) : GlobMatch(matchIn.patterns[k], matchIn.name)) => matchOut.result
        /\ (matchIn.name = Chars("app.log") /\ matchIn.patterns = <<Chars("*.log")>>) => matchOut.result
        /\ (matchIn.name = Chars("app.log.bak") /\ matchIn.patterns = <<Chars("*.log")>>) => ~matchOut.result

\* C13 witness: "app.log.bak", of which "*.log" matches a prefix only, is not
\* matched
C13_Witness ==
    /\ matchOut.done /\ ~matchOut.result
    /\ matchIn.name = Chars("app.log.bak") /\ matchIn.patterns = <<Chars("*.log")>>

\* C14 as stated: every character of a pattern other than '*' is taken
\* literally: for every pattern and name over an alphabet that includes '.',
\* matchesPattern agrees with the glob matcher in which '*' is the only
\* wildcard ("*.log" does not match "catalog").
C14_AgreesWithGlob ==
    matchOut.done =>
        (matchOut.result <=> \E k \in 1..Len(matchIn.patterns) : GlobMatch(matchIn.patterns[k], matchIn.name))

\* a step of the caller of SSHDeployer that is a call of disconnect()
DisconnectStep == calls' = calls + 1 /\ call'.op = "disconnect"

\* C15: disconnect() never throws; called on a session that never connected
\* or is already disconnected it performs no dispose and changes no state;
\* called on a connected session it disposes once; after any sequence of
\* connect and disconnect calls dispose has been invoked at most once per
\* successful connect.
C15_DisconnectIdempotent ==
    [][/\ DisconnectStep =>
              /\ ret'.status = "ok"
              /\ ~connected'
              /\ ~connected =>
                    /\ UNCHANGED <<connected, sshConn, connects, disposes, remoteDirs, inFlight>>
                    /\ \A n \in 1..Len(log') : log'[n].kind # "dispose"
              /\ connected => disposes' = disposes + 1 /\ sshConn' = "disposed"
       /\ disposes' <= connects']_vars

\* C15 witness: disconnect() was called a second time after a session was
\* opened and disposed, and did not dispose again
C15_Witness ==
    /\ call.op = "disconnect" /\ ret.status = "ok"
    /\ log = <<Ev("disconnect", <<>>, "call")>>
    /\ sshConn = "disposed" /\ connects = 1 /\ disposes = 1
    /\ calls >= 3

\* C16 as stated: disconnect() always releases the resources of the
\* remote-session provider: after disconnect() has returned no session of the
\* provider is left undisposed, whatever the state before, the state after a
\* connect attempt that failed included.
C16_DisconnectAlwaysReleases ==
    (call.op = "disconnect" /\ call.phase = "done") => sshConn \in {"none", "disposed"}

\* the calls of this.ssh.connect in the log
ConnectAttempts == {n \in Pos : log[n].kind = "ssh.connect"}

\* C17: connect chooses exactly one authentication method: with a non-empty
\* private key path the host is contacted with the private key and never with
\* the password, also when a password is configured; the password is used
\* only when the private key path is empty; with neither, connect fails
\* without contacting the host.
C17_OneAuthMethod ==
    call.op = "connect" =>
        /\ Cardinality(ConnectAttempts) <= 1
        /\ \A n \in ConnectAttempts :
              /\ log[n].path \in {<<"privateKey">>, <<"password">>}
              /\ call.conn.privateKeyPath # "" => log[n].path = <<"privateKey">>
              /\ log[n].path = <<"password">> => call.conn.privateKeyPath = "" /\ call.conn.password # ""
        /\ (call.conn.privateKeyPath = "" /\ call.conn.password = "") =>
              /\ ConnectAttempts = {}
              /\ call.phase = "done" => ret.status = "throw" /\ ret.error.msg = "No authentication method provided (password or private key)"
        /\ (call.phase = "done" /\ ConnectAttempts = {}) => ret.status = "throw"
        /\ (call.phase = "done" /\ ret.status = "ok") => ConnectAttempts # {}

\* C17 witness: with a private key path and a password both configured, the
\* session was opened with the private key
C17_Witness ==
    /\ call.op = "connect" /\ call.phase = "done" /\ ret.status = "ok"
    /\ call.conn.privateKeyPath # "" /\ call.conn.password # ""
    /\ \E n \in Pos : log[n] = Ev("ssh.connect", <<"privateKey">>, "ok")

\* the commands of executeScript in the log
ScriptCommands == SelectSeq(log, LAMBDA e : e.kind \in {"test", "chmod", "run"})

\* C18: executeScript fails fast when the script does not exist remotely: it
\* throws "Script not found" with the script path and issues neither the
\* chmod nor the run command; otherwise the commands are, in this order, the
\* existence check, chmod +x and the run, in baseDir, of the script of baseDir.
C18_ScriptNotFoundFailsFast ==
    call.op = "executeScript" =>
        LET scriptPath == RemotePath(call.baseDir, <<call.script>>)
            cmds == ScriptCommands
        IN  /\ Len(cmds) <= 3
            /\ \A j \in 1..Len(cmds) : cmds[j].kind = <<"test", "chmod", "run">>[j] /\ cmds[j].path = scriptPath
            /\ Len(cmds) >= 2 => cmds[1].res = "ok"
            /\ Len(cmds) = 3 => Head(cmds[3].path) = call.baseDir
            /\ (Len(cmds) >= 1 /\ cmds[1].res = "fail") =>
                  /\ Len(cmds) = 1
                  /\ call.phase = "done"
                  /\ ret = Threw(Err("Script not found", scriptPath, -1))
            /\ (call.phase = "done" /\ ret.status = "ok") => Len(cmds) = 3 /\ ret.value.found

\* C18 witness: on a connected session the script was not found and
\* executeScript has thrown after the existence check alone
C18_Witness ==
    /\ call.op = "executeScript" /\ call.phase = "done" /\ sshConn = "ready"
    /\ ret.status = "throw" /\ ret.error.msg = "Script not found"
    /\ ScriptCommands = <<Ev("test", <<"/var/www/app", "deploy.sh">>, "fail")>>

\* C19: a non-zero exit code of the remote script is not a fatal error:
\* executeScript returns, with the exit code in its result, and the run goes
\* on to disconnect and ends as a success (exit code 0, session disposed).
C19_NonZeroExitNotFatal ==
    \A n \in Pos :
        (log[n].kind = "run" /\ log[n].res = "fail") =>
            /\ n < Len(log) /\ log[n + 1] = Ev("return", <<"executeScript">>, "ok")
            /\ ret.status = "ok" /\ ret.value.found /\ ret.value.code # 0
            /\ pc \in {"scripting", "done"}
            /\ pc = "done" => exitCode = 0 /\ DisconnectCalled /\ ~connected /\ sshConn = "disposed"

\* C19 witness: a run whose script exited with a non-zero code has ended as a
\* success, disconnected
C19_Witness ==
    /\ pc = "done" /\ exitCode = 0 /\ sshConn = "disposed"
    /\ \E n \in Pos : log[n].kind = "run" /\ log[n].res = "fail"
    /\ log[Len(log)].kind = "dispose"

\* C20 as stated: when a post-deploy script was requested and is not found on
\* the remote host, the run ends as a failure (error reported, exit code 1),
\* not as a successful deployment, and the session is cleaned up.
C20_ScriptNotFoundFatal ==
    (Terminated /\ options.run # RunUndefined /\ \E n \in Pos : log[n].kind = "test" /\ log[n].res = "fail") =>
        /\ pc = "exited" /\ exitCode = 1
        /\ DisconnectCalled /\ ~connected

C22_MergePerField ==
    mergeOut.done =>
        LET file == mergeIn.config.connection
            cli == mergeIn.options
            out == mergeOut.config.connection
        IN  /\ out.host = (IF cli.ip # "" THEN cli.ip ELSE file.host)
            /\ out.username = (IF cli.user # "" THEN cli.user ELSE file.username)
            /\ out.password = (IF cli.password # "" THEN cli.password ELSE file.password)
            /\ out.privateKeyPath = (IF cli.key # "" THEN cli.key ELSE file.privateKeyPath)
            /\ out.targetDirectory = (IF cli.directory # "" THEN cli.directory ELSE file.targetDirectory)
            /\ DOMAIN out = DOMAIN file
            /\ DOMAIN mergeOut.config = DOMAIN mergeIn.config
            /\ mergeOut.config.deploy = mergeIn.config.deploy
            /\ mergeOut.config.scripts = mergeIn.config.scripts
            /\ mergeOut.config.project = mergeIn.config.project

\* C22 witness: with every connection field set in the file and only -u given,
\* the merged configuration is that of the file with the username replaced
C22_Witness ==
    /\ mergeOut.done
    /\ mergeIn.config.connection = [host |-> "h1", username |-> "u1", password |-> "pw", privateKeyPath |-> "id_rsa", targetDirectory |-> "/var/www/app"]
    /\ mergeIn.options = [NoCli EXCEPT !.user = "u2"]
    /\ mergeOut.config = [mergeIn.config EXCEPT !.connection.username = "u2"]

\* the scan of the run meets a directory that cannot be read
ScanMeetsUnreadable == Outside(tree, fileConfig.deploy) \cap tree.unreadable # {}

\* C23: if a directory cannot be read during the scan, the scan fails as a
\* whole: no file list is returned, not even that of the readable part, and
\* the run aborts (exit code 1) without a plan, without connecting and without
\* uploading a file; the scan fails for no other reason.
C23_ScanFailsAsAWhole ==
    \A n \in Pos :
        log[n].kind = "scan" =>
            /\ log[n].res = "throw" <=> ScanMeetsUnreadable
            /\ log[n].res = "throw" =>
                  /\ files = <<>> /\ directories = <<>>
                  /\ ~ConnectCalled /\ connects = 0 /\ sshConn = "none"
                  /\ \A m \in Pos : log[m].kind \notin {"plan", "mkdir", "putStart", "put"}
                  /\ pc \in {"catch", "exited"}
                  /\ pc = "exited" => exitCode = 1

\* C23 witness: the run over a tree with readable files and a directory that
\* cannot be read has ended with exit code 1 after the scan failed
C23_Witness ==
    /\ pc = "exited" /\ exitCode = 1
    /\ tree.unreadable # {} /\ (\E i \in 1..Len(tree.items) : ~tree.items[i].isDir /\ Len(tree.items[i].path) = 2)
    /\ \E n \in Pos : log[n] = Ev("scan", <<>>, "throw")

\* a name that excludeFiles or excludePatterns would exclude, were it a file's
FileRuleHits(name, rules) == Includes(rules.excludeFiles, name) \/ matchesPattern(name, rules.excludePatterns)

\* C24: directories are excluded by exact name in excludeDirectories only: a
\* directory whose name matches a pattern of excludePatterns or is in
\* excludeFiles is still traversed and its eligible files are listed, and a
\* file whose name is in excludeDirectories, and neither in excludeFiles nor
\* matched by a pattern, is still listed.
C24_DirectoriesExcludedByNameOnly ==
    (scanOut.done /\ ~scanOut.err) =>
        \A it \in Range(scanIn.tree.items) :
            (/\ ~it.isDir
             /\ \/ \E n \in 1..(Len(it.path) - 1) : FileRuleHits(it.path[n], scanIn.rules)
                \/ Includes(scanIn.rules.excludeDirectories, basename(it.path))
             /\ \A n \in 1..(Len(it.path) - 1) : ~Includes(scanIn.rules.excludeDirectories, it.path[n])
             /\ ~FileRuleHits(basename(it.path), scanIn.rules))
            => Includes(scanOut.files, Entry(it.path))

\* C24 witness: with logs in excludeDirectories, deploy.sh in excludeFiles and
\* the pattern *.log, the file logs and the files of the directories deploy.sh
\* and app.log are listed
C24_Witness ==
    /\ scanOut.done /\ ~scanOut.err
    /\ scanIn.rules = [excludeDirectories |-> <<"node_modules", "logs">>, excludeFiles |-> <<"deploy.sh">>, excludePatterns |-> <<"*.log", "*.tmp">>]
    /\ Includes(scanOut.files, Entry(<<"logs">>))
    /\ Includes(scanOut.files, Entry(<<"deploy.sh", "x.js">>))
    /\ Includes(scanOut.files, Entry(<<"app.log", "c.txt">>))

\* C25: in every deployment run that uploads at least one file, a mkdir of the
\* remote base directory is issued before the first upload starts, also when
\* no subdirectory is planned, and before the mkdir of any planned subdirectory.
C25_BaseDirEnsuredFirst ==
    /\ \A n \in Pos :
          log[n].kind = "putStart" =>
              \E m \in 1..(n - 1) : log[m].kind = "mkdir" /\ log[m].path = <<Head(log[n].path)>>
    /\ \A n \in Pos :
          (log[n].kind = "mkdir" /\ Len(log[n].path) >= 2) =>
              \E m \in 1..(n - 1) : log[m].kind = "mkdir" /\ log[m].path = <<Head(log[n].path)>>

====
